---- MODULE Spec2Model ----
(***************************************************************************)
(* Model of emoji-banner-generator: text -> bitmap (bitmap.ts), bitmap ->  *)
(* emoji text (renderer.ts) and the command line run (index.ts, cli.ts).   *)
(*                                                                         *)
(* A JavaScript string is a sequence of one-character strings.  A Bitmap   *)
(* is a sequence of rows, a row a sequence of BOOLEAN.  Array indexes of   *)
(* the source are 0-based, sequences here are 1-based.                     *)
(***************************************************************************)
EXTENDS Integers, Sequences, FiniteSets, TLC

VARIABLES
    \* textToBitmap (bitmap.ts)
    op,          \* the operation that produced the current state
    text,        \* raw text argument, UNDEFINED when missing
    fontName,    \* font argument
    vertical,    \* options.vertical
    decoded,     \* decodeEscapes(text)
    lines,       \* truncatedText.split('\n'), the lines that are rasterized
    bitmap,      \* the Bitmap returned
    error,       \* "none" or the Error thrown
    \* trimBitmap called on a bitmap and then on its own result
    trimIn,      \* the bitmap given to the first call
    trimOnce,    \* trimBitmap(trimIn)
    trimTwice,   \* trimBitmap(trimOnce)
    trimCalls,   \* number of calls made
    \* renderBitmap (renderer.ts) called, called for other inputs, and called
    \* again for the first input
    rphase,      \* "idle", "first", "between" or "again"
    rbitmap,     \* bitmap argument of the latest render
    rconfig,     \* config argument of the latest render
    result,      \* what the latest render returned
    firstInput,  \* the arguments of the first render
    firstResult, \* the text and the error of the first render
    between,     \* whether other inputs were rendered since the first render
    generator,   \* the seed the generator of the latest render was left with
    \* one run of the command line program (index.ts, cli.ts)
    mpc,         \* position of main: "start", "parsed", "validated",
                 \* "generated", "done", "catch" or "exited"
    argv,        \* the command line as commander parsed it
    options,     \* the CLIOptions of parseCLIOptions
    mainError,   \* "none" or the message of the Error thrown
    rasterized,  \* textToBitmap was called
    rendered,    \* renderBitmap was called
    mconfig,     \* the RenderConfig of generateBanner
    banner,      \* the BannerResult of generateBanner
    printed,     \* the banner was written to stdout
    copied,      \* the banner was copied to the clipboard
    exitCode,    \* -1 while the process runs, then its exit code
    \* the last three statements of textToBitmap: the lines are rasterized and
    \* the line bitmaps composed
    cpc,         \* "init", "rasterized" or "merged"
    clines,      \* lines, the result of truncatedText.split('\n')
    cfont,       \* the font name
    cbitmaps,    \* lines.map((line) => renderLineToBitmap(line, font))
    cmerged,     \* what mergeLines(lineBitmaps, font.lineSpacing) returned
    \* the calls of selectEmoji one render makes
    spc,         \* "idle" or "render"
    smode,       \* config.mode
    sn,          \* emojis.length
    srandom,     \* random.seed, the state of the generator of the render
    sindex       \* the index the latest selectEmoji used, -1 before the first

textVars == <<op, text, fontName, vertical, decoded, lines, bitmap, error>>
trimVars == <<trimIn, trimOnce, trimTwice, trimCalls>>
renderVars == <<rphase, rbitmap, rconfig, result, firstInput, firstResult, between,
                generator>>
mainVars == <<mpc, argv, options, mainError, rasterized, rendered, mconfig, banner,
              printed, copied, exitCode>>
composeVars == <<cpc, clines, cfont, cbitmaps, cmerged>>
selectVars == <<spc, smode, sn, srandom, sindex>>

----------------------------------------------------------------------------
(* Bounds *)

\* longest raw text drawn as input of textToBitmap
MaxLen == 4
\* largest bitmap handed directly to trimBitmap
MaxTrimRows == 3
MaxTrimCols == 2
\* how far the long raw texts reach below and above MAX_TEXT_LENGTH and its
\* half
MaxOver == 2

----------------------------------------------------------------------------
(* Characters *)

\* the value of a missing argument (no text of Texts equals it)
UNDEFINED == <<"undefined">>
\* the boolean true where the source holds a boolean or a string
BOOL_TRUE == <<"true">>
\* JavaScript truthiness of an optional string (or true): neither undefined
\* nor the empty string
Truthy(v) == v # UNDEFINED /\ v # <<>>
BACKSLASH == "\\"
LF == "\n"
CR == "\r"
TAB == "\t"
SPACE == " "

\* Characters raw text is drawn from: two glyphs of the fonts ("A", "B"), a
\* lower case letter that is also the escape letter ("n"), the backslash (no
\* glyph of its own), the two line breaks and a control character.
Chars == {"A", "B", "n", BACKSLASH, LF, CR, TAB}

Texts == UNION {[1..k -> Chars] : k \in 0..MaxLen}

\* String.prototype.toUpperCase on one character
toUpperCase(c) == IF c = "n" THEN "N" ELSE c

Max(a, b) == IF a >= b THEN a ELSE b
Min(a, b) == IF a <= b THEN a ELSE b

\* s.slice(0, n) with no cap
sliceAll(s, n) == s

\* s.slice(0, n)
Slice0(s, n) == SubSeq(s, 1, Min(n, Len(s)))

RECURSIVE JoinRange(_, _, _, _)
\* ss[lo] sep ss[lo + 1] sep ... ss[hi] for lo <= hi, by halves (the depth
\* of the evaluation stays logarithmic in the number of strings)
JoinRange(ss, sep, lo, hi) ==
    IF lo = hi THEN ss[lo]
    ELSE JoinRange(ss, sep, lo, (lo + hi) \div 2) \o sep
         \o JoinRange(ss, sep, ((lo + hi) \div 2) + 1, hi)

\* Array.prototype.join(sep)
Join(ss, sep) ==
    IF ss = <<>> THEN <<>> ELSE JoinRange(ss, sep, 1, Len(ss))

\* the concatenation of a sequence of strings
Concat(ss) == Join(ss, <<>>)

\* the pieces of a string from the pieces of its two halves: the last piece
\* of the left half continues in the first piece of the right half
SplitGlue(left, right) ==
    SubSeq(left, 1, Len(left) - 1)
    \o <<left[Len(left)] \o right[1]>>
    \o SubSeq(right, 2, Len(right))

RECURSIVE SplitFrom(_, _, _, _)
\* the pieces of s[lo..hi] between the separators c, by halves
SplitFrom(s, c, lo, hi) ==
    IF lo > hi THEN << <<>> >>
    ELSE IF lo = hi THEN (IF s[lo] = c THEN << <<>>, <<>> >> ELSE << <<s[lo]>> >>)
    ELSE SplitGlue(SplitFrom(s, c, lo, (lo + hi) \div 2),
                   SplitFrom(s, c, ((lo + hi) \div 2) + 1, hi))

\* String.prototype.split(c) for a one-character separator: the empty string
\* gives one empty line
Split(s, c) == SplitFrom(s, c, 1, Len(s))

\* Array.from(line): the characters of a line, each as its own string
ArrayFrom(line) == [i \in 1..Len(line) |-> <<line[i]>>]

----------------------------------------------------------------------------
(* decodeEscapes / normalizeTextInput *)

\* one iteration of the for loop of decodeEscapes (the i++ of the loop
\* included): st.i is the 1-based index, st.out is `result`; nothing happens
\* once the loop has ended
decodeStep(t, st) ==
    IF st.i > Len(t) THEN st
    ELSE IF t[st.i] # BACKSLASH THEN [i |-> st.i + 1, out |-> Append(st.out, t[st.i])]
    ELSE IF st.i + 1 > Len(t) THEN [i |-> st.i + 1, out |-> Append(st.out, BACKSLASH)]
    ELSE IF t[st.i + 1] = "n" THEN [i |-> st.i + 2, out |-> Append(st.out, LF)]
    ELSE IF t[st.i + 1] = BACKSLASH
    THEN [i |-> st.i + 2, out |-> Append(st.out, BACKSLASH)]
    ELSE [i |-> st.i + 2, out |-> st.out \o <<BACKSLASH, t[st.i + 1]>>]

RECURSIVE decodeLoop(_, _, _)
\* n iterations of the for loop of decodeEscapes from st on, by halves: the
\* state `half` after the first half is computed before the second half runs
decodeLoop(t, st, n) ==
    IF n = 0 THEN st
    ELSE IF n = 1 THEN decodeStep(t, st)
    ELSE CHOOSE end \in {decodeLoop(t, half, n - (n \div 2)) :
                            half \in {decodeLoop(t, st, n \div 2)}} : TRUE

decodeStepNoSkip(t, st) ==
    IF st.i > Len(t) THEN st
    ELSE IF t[st.i] # BACKSLASH THEN [i |-> st.i + 1, out |-> Append(st.out, t[st.i])]
    ELSE IF st.i + 1 > Len(t) THEN [i |-> st.i + 1, out |-> Append(st.out, BACKSLASH)]
    ELSE IF t[st.i + 1] = "n" THEN [i |-> st.i + 2, out |-> Append(st.out, LF)]
    ELSE IF t[st.i + 1] = BACKSLASH THEN [i |-> st.i + 1, out |-> st.out]
    ELSE [i |-> st.i + 2, out |-> st.out \o <<BACKSLASH, t[st.i + 1]>>]

RECURSIVE decodeLoopNoSkip(_, _, _)
decodeLoopNoSkip(t, st, n) ==
    IF n = 0 THEN st
    ELSE IF n = 1 THEN decodeStepNoSkip(t, st)
    ELSE CHOOSE end \in {decodeLoopNoSkip(t, half, n - (n \div 2)) :
                            half \in {decodeLoopNoSkip(t, st, n \div 2)}} : TRUE

\* decodeEscapes with the i++ of the doubled backslash applied to the first
\* backslash instead of the second: the second one starts the next escape
decodeEscapesNoSkip(t) == decodeLoopNoSkip(t, [i |-> 1, out |-> <<>>], Len(t)).out

\* the loop ends after at most text.length iterations
decodeEscapes(t) == decodeLoop(t, [i |-> 1, out |-> <<>>], Len(t)).out

\* .replace(/\r\n/g, '\n'): every \r that a \n follows is a match (matches
\* cannot overlap), and the match leaves its \n
replaceCRLF(s) ==
    Concat([i \in 1..Len(s) |->
              IF s[i] = CR /\ i < Len(s) /\ s[i + 1] = LF THEN <<>> ELSE <<s[i]>>])

\* .replace(/\r/g, '\n')
replaceCR(s) == [i \in 1..Len(s) |-> IF s[i] = CR THEN LF ELSE s[i]]

\* the callback of normalizeTextInput's map
verticalizeLine(line) ==
    IF Len(line) = 0 THEN <<>> ELSE Join(ArrayFrom(line), <<LF>>)

\* verticalize with the lines joined by one line break instead of two
verticalizeNoBlank(normalizedNewlines) ==
    LET ls == Split(normalizedNewlines, LF)
        verticalizedLines == [i \in 1..Len(ls) |-> verticalizeLine(ls[i])]
    IN  Join(verticalizedLines, <<LF>>)

verticalize(normalizedNewlines) ==
    LET ls == Split(normalizedNewlines, LF)
        verticalizedLines == [i \in 1..Len(ls) |-> verticalizeLine(ls[i])]
    IN  Join(verticalizedLines, <<LF, LF>>)

normalizeTextInput(t, vert) ==
    LET normalizedNewlines == replaceCR(replaceCRLF(decodeEscapes(t)))
    IN  IF ~vert THEN normalizedNewlines ELSE verticalize(normalizedNewlines)

\* the class [\x00-\x09\x0B-\x1F\x7F]
IsControl(c) == c \in {TAB, CR}

\* .replace(/[\x00-\x09\x0B-\x1F\x7F]/g, '')
sanitize(s) == SelectSeq(s, LAMBDA c : ~IsControl(c))

MAX_TEXT_LENGTH == 100

\* the first n characters of unit repeated without end
Repeat(unit, n) == [i \in 1..n |-> unit[((i - 1) % Len(unit)) + 1]]

\* what the long raw texts repeat: a glyph, a line of two glyphs, a glyph and
\* a control character, a glyph and an escaped line break
LongUnits == {<<"A">>, <<"A", "B", LF>>, <<"A", TAB>>, <<"B", BACKSLASH, "n">>}

\* raw texts about as long as MAX_TEXT_LENGTH, and about half as long (their
\* stacked form is about as long as MAX_TEXT_LENGTH)
LongTexts ==
    {Repeat(u, c + d) : u \in LongUnits, c \in {MAX_TEXT_LENGTH \div 2, MAX_TEXT_LENGTH},
                       d \in (0 - MaxOver)..MaxOver}

----------------------------------------------------------------------------
(* PixelFont registry (fonts.ts is not part of the sources: two fonts in   *)
(* the shape the specification gives them)                                 *)

\* a regular font: every pattern has `height` rows of equal length
BlockFont ==
    [height |-> 3, letterSpacing |-> 1, lineSpacing |-> 1,
     map |-> [c \in {"A", "B", "H", "I", "N", "?", SPACE} |->
        CASE c = "A" -> << <<"#", "#">>, <<"#", "#">>, <<"#", " ">> >>
          [] c = "H" -> << <<"#", " ", "#">>, <<"#", "#", "#">>, <<"#", " ", "#">> >>
          [] c = "I" -> << <<"#">>, <<"#">>, <<"#">> >>
          [] c = "B" -> << <<"#", " ", "#">>, <<" ", "#", " ">>, <<"#", "#", "#">> >>
          [] c = "N" -> << <<"#">>, <<"#">>, <<"#">> >>
          [] c = "?" -> << <<" ", "#">>, <<" ", " ">>, <<" ", "#">> >>
          [] OTHER   -> << <<" ">>, <<" ">>, <<" ">> >>]]

\* an irregular font: ragged pattern rows, a pattern shorter and one taller
\* than `height`, no spacing, no glyph for "?" nor for the space
RaggedFont ==
    [height |-> 2, letterSpacing |-> 0, lineSpacing |-> 0,
     map |-> [c \in {"A", "B"} |->
        CASE c = "A" -> << <<"#">> >>
          [] OTHER   -> << <<" ", "#">>, <<"#">>, <<"#", "#", "#">> >>]]

FontNames == {"block", "ragged"}

getFont(name) == IF name = "ragged" THEN RaggedFont ELSE BlockFont

----------------------------------------------------------------------------
(* trimBitmap / getCharacterPattern / renderLineToBitmap / mergeLines *)

\* row.every((cell) => !cell)
RowEmpty(row) == \A i \in 1..Len(row) : ~row[i]

RECURSIVE firstNonEmpty(_, _)
\* startRow after the first while loop (1-based; Len + 1 when all are empty)
firstNonEmpty(b, startRow) ==
    IF startRow <= Len(b) /\ RowEmpty(b[startRow])
    THEN firstNonEmpty(b, startRow + 1) ELSE startRow

RECURSIVE lastNonEmpty(_, _)
\* endRow after the second while loop (1-based; 0 when all are empty)
lastNonEmpty(b, endRow) ==
    IF endRow >= 1 /\ RowEmpty(b[endRow])
    THEN lastNonEmpty(b, endRow - 1) ELSE endRow

\* trimBitmap with each while loop run at most once: one empty row is dropped
\* at each end
trimBitmapOneRow(b) ==
    IF Len(b) = 0 THEN b
    ELSE LET startRow == IF RowEmpty(b[1]) THEN 2 ELSE 1
             endRow == IF RowEmpty(b[Len(b)]) THEN Len(b) - 1 ELSE Len(b)
         IN  IF startRow > endRow THEN << <<>> >>
             ELSE SubSeq(b, startRow, endRow)

trimBitmap(b) ==
    IF Len(b) = 0 THEN b
    ELSE LET startRow == firstNonEmpty(b, 1)
             endRow == lastNonEmpty(b, Len(b))
         IN  IF startRow > endRow THEN << <<>> >>
             ELSE SubSeq(b, startRow, endRow)

getCharacterPattern(char, font) ==
    IF char \in DOMAIN font.map THEN font.map[char]
    ELSE IF toUpperCase(char) \in DOMAIN font.map THEN font.map[toUpperCase(char)]
    ELSE IF "?" \in DOMAIN font.map THEN font.map["?"]
    ELSE IF SPACE \in DOMAIN font.map THEN font.map[SPACE]
    ELSE <<>>

RECURSIVE maxRowLength(_)
\* pattern.reduce((max, row) => Math.max(max, row.length), 0)
maxRowLength(pattern) ==
    IF pattern = <<>> THEN 0
    ELSE Max(Len(Head(pattern)), maxRowLength(Tail(pattern)))

\* charCells with the spacing pushed after the last character too
charCellsSpacedLast(char, rowIndex, isLast, font) ==
    LET pattern == getCharacterPattern(char, font)
        rowPattern == IF rowIndex <= Len(pattern) THEN pattern[rowIndex] ELSE <<>>
    IN  [colIndex \in 1..maxRowLength(pattern) |->
            colIndex <= Len(rowPattern) /\ rowPattern[colIndex] = "#"]
        \o [s \in 1..font.letterSpacing |-> FALSE]

\* what one character appends to row rowIndex (1-based) of the line bitmap
charCells(char, rowIndex, isLast, font) ==
    LET pattern == getCharacterPattern(char, font)
        width == maxRowLength(pattern)
        rowPattern == IF rowIndex <= Len(pattern) THEN pattern[rowIndex] ELSE <<>>
        cells == [colIndex \in 1..width |->
                    colIndex <= Len(rowPattern) /\ rowPattern[colIndex] = "#"]
        spacing == IF isLast THEN <<>> ELSE [s \in 1..font.letterSpacing |-> FALSE]
    IN  cells \o spacing

renderLineToBitmap(line, font) ==
    [rowIndex \in 1..font.height |->
        Concat([charIndex \in 1..Len(line) |->
            charCells(line[charIndex], rowIndex, charIndex = Len(line), font)])]

\* the width of the first line bitmap only
firstLineWidth(lineBitmaps) ==
    IF Len(lineBitmaps[1]) > 0 THEN Len(lineBitmaps[1][1]) ELSE 0

\* Math.max(...lineBitmaps.map((line) => line[0]?.length ?? 0)) of a
\* non-empty list
maxFirstRow(lineBitmaps) ==
    LET widths == {IF Len(lineBitmaps[i]) > 0 THEN Len(lineBitmaps[i][1]) ELSE 0 :
                      i \in 1..Len(lineBitmaps)}
    IN  CHOOSE w \in widths : \A v \in widths : v <= w

\* padRow without the while loop: the row is copied as it is
padRowNoPad(rowData, width) == rowData

\* rowData.slice() pushed with false while shorter than width
padRow(rowData, width) ==
    rowData \o [i \in 1..(width - Len(rowData)) |-> FALSE]

\* the rows one line bitmap contributes to `merged`
mergedBlock(lineBitmap, isLast, width, lineSpacing) ==
    [row \in 1..Len(lineBitmap) |-> padRow(lineBitmap[row], width)]
    \o (IF ~isLast /\ lineSpacing > 0
        THEN [i \in 1..lineSpacing |-> [c \in 1..width |-> FALSE]]
        ELSE <<>>)

mergeLines(lineBitmaps, lineSpacing) ==
    IF Len(lineBitmaps) = 0 THEN << <<>> >>
    ELSE LET width == maxFirstRow(lineBitmaps)
             merged == Concat([index \in 1..Len(lineBitmaps) |->
                          mergedBlock(lineBitmaps[index], index = Len(lineBitmaps),
                                      width, lineSpacing)])
         IN  trimBitmap(merged)

getBitmapDimensions(b) ==
    IF Len(b) = 0 THEN [width |-> 0, height |-> 0]
    ELSE [width |-> Len(b[1]), height |-> Len(b)]

validateBitmap(b) ==
    IF Len(b) = 0 THEN TRUE
    ELSE \A r \in 1..Len(b) : Len(b[r]) = Len(b[1])

----------------------------------------------------------------------------
(* textToBitmap *)

\* the outcome of textToBitmap(t, name, {vertical: vert}) as a record
textToBitmap(t, name, vert) ==
    IF t = UNDEFINED \/ t = <<>>
    THEN [error |-> "Text input is required", decoded |-> <<>>,
          lines |-> <<>>, bitmap |-> <<>>]
    ELSE LET normalizedText == normalizeTextInput(t, vert)
             sanitizedText == sanitize(normalizedText)
         IN  IF Len(sanitizedText) = 0
             THEN [error |-> "Text input is empty after sanitization",
                   decoded |-> decodeEscapes(t), lines |-> <<>>, bitmap |-> <<>>]
             ELSE LET truncatedText == Slice0(sanitizedText, MAX_TEXT_LENGTH)
                      font == getFont(name)
                      ls == Split(truncatedText, LF)
                      lineBitmaps == [i \in 1..Len(ls) |-> renderLineToBitmap(ls[i], font)]
                  IN  [error |-> "none", decoded |-> decodeEscapes(t), lines |-> ls,
                       bitmap |-> mergeLines(lineBitmaps, font.lineSpacing)]

----------------------------------------------------------------------------
(* renderer.ts: display width                                              *)
(*                                                                         *)
(* An emoji string is a sequence of grapheme clusters (getGraphemes): a    *)
(* pictographic emoji ("E1".."E3", "G0".."G4"), the ideographic space      *)
(* U+3000 (IDSP), a letter of an emoji alias ("a", "b"), the colon, a      *)
(* narrow character that is no alias letter (".") and the space.           *)

IDSP == "U+3000"

\* EXTENDED_PICTO_REGEX / EMOJI_REGEX on one grapheme
IsPictographic(g) == g \in {"E1", "E2", "E3", "G0", "G1", "G2", "G3", "G4"}

\* WIDE_CHAR_REGEX on one grapheme
IsWideChar(g) == g = IDSP

\* \s and the characters String.prototype.trim removes
IsWhitespace(g) == g \in {SPACE, IDSP}

\* the class [a-zA-Z0-9_-]
IsAliasChar(g) == g \in {"a", "b"}

RECURSIVE trimStart(_)
trimStart(s) ==
    IF s # <<>> /\ IsWhitespace(Head(s)) THEN trimStart(Tail(s)) ELSE s

RECURSIVE trimEnd(_)
trimEnd(s) ==
    IF s # <<>> /\ IsWhitespace(s[Len(s)]) THEN trimEnd(SubSeq(s, 1, Len(s) - 1)) ELSE s

\* String.prototype.trim
trim(s) == trimEnd(trimStart(s))

ALIAS_MAX == 64

\* /^:?[a-zA-Z0-9_-]{1,64}:?$/.test(s): the colon is no character of the
\* class, so a leading and a trailing colon can only match the optional ones
MatchesAlias(s) ==
    LET a == IF s # <<>> /\ Head(s) = ":" THEN Tail(s) ELSE s
        b == IF a # <<>> /\ a[Len(a)] = ":" THEN SubSeq(a, 1, Len(a) - 1) ELSE a
    IN  /\ Len(b) >= 1
        /\ Len(b) <= ALIAS_MAX
        /\ \A i \in 1..Len(b) : IsAliasChar(b[i])

isLikelyCustomEmoji(value) ==
    LET trimmed == trim(value)
    IN  IF trimmed = <<>> THEN FALSE
        ELSE IF \E i \in 1..Len(trimmed) :
                    IsPictographic(trimmed[i]) \/ IsWideChar(trimmed[i])
        THEN FALSE
        ELSE MatchesAlias(trimmed)
             /\ ~\E i \in 1..Len(trimmed) : IsWhitespace(trimmed[i])

RECURSIVE sumWidths(_)
\* the for loop of getDisplayWidth
sumWidths(s) ==
    IF s = <<>> THEN 0
    ELSE (IF Head(s) = IDSP THEN 2
          ELSE IF IsPictographic(Head(s)) \/ IsWideChar(Head(s)) THEN 2
          ELSE 1) + sumWidths(Tail(s))

getDisplayWidth(str) ==
    IF isLikelyCustomEmoji(str) THEN 2 ELSE sumWidths(str)

\* n spaces
Spaces(n) == [i \in 1..n |-> SPACE]

padToWidth(str, targetWidth) ==
    LET width == getDisplayWidth(str)
    IN  IF width < targetWidth THEN str \o Spaces(targetWidth - width) ELSE str

fitToWidth(str, targetWidth) ==
    LET current == getDisplayWidth(str)
    IN  IF current = targetWidth THEN str
        ELSE IF current < targetWidth THEN padToWidth(str, targetWidth)
        ELSE padToWidth(<<>>, targetWidth)

----------------------------------------------------------------------------
(* renderer.ts: SeededRandom                                               *)
(*                                                                         *)
(* The seed is a JavaScript number.  seed * 1103515245 exceeds 2^53, so    *)
(* the product and the sum are rounded to the nearest double (ties to      *)
(* even) before "& 0x7fffffff" takes the low 31 bits.  TLC's integers are  *)
(* 32 bits wide: a number n < 2^62 is held as the pair (hi, lo) with       *)
(* n = hi * 2^31 + lo.                                                     *)

LCG_MULTIPLIER == 1103515245
LCG_INCREMENT == 12345
MASK31 == 2147483647
RENDER_SEED == 42

RECURSIVE BitLength(_)
\* number of bits of n >= 0
BitLength(n) == IF n = 0 THEN 0 ELSE 1 + BitLength(n \div 2)

\* seed * LCG_MULTIPLIER as (hi, lo), by limbs of 11 bits
Multiply(seed) ==
    LET b == 2048
        s0 == seed % b
        s1 == (seed \div b) % b
        s2 == seed \div (b * b)
        a0 == LCG_MULTIPLIER % b
        a1 == (LCG_MULTIPLIER \div b) % b
        a2 == LCG_MULTIPLIER \div (b * b)
        t0 == s0 * a0
        t1 == s0 * a1 + s1 * a0 + (t0 \div b)
        t2 == s0 * a2 + s1 * a1 + s2 * a0 + (t1 \div b)
        t3 == s1 * a2 + s2 * a1 + (t2 \div b)
        t4 == s2 * a2 + (t3 \div b)
        d0 == t0 % b
        d1 == t1 % b
        d2 == t2 % b
        d3 == t3 % b
    IN  [hi |-> (d2 \div 512) + d3 * 4 + t4 * 8192,
         lo |-> d0 + d1 * b + (d2 % 512) * (b * b)]

\* (hi, lo) + k for 0 <= k <= MASK31
AddSmall(n, k) ==
    IF n.lo > MASK31 - k
    THEN [hi |-> n.hi + 1, lo |-> n.lo - (MASK31 - k) - 1]
    ELSE [hi |-> n.hi, lo |-> n.lo + k]

\* the double nearest to the integer (hi, lo) < 2^63, ties to even
RoundToDouble(n) ==
    LET bits == IF n.hi = 0 THEN BitLength(n.lo) ELSE 31 + BitLength(n.hi)
    IN  IF bits <= 53 THEN n
        ELSE LET k == bits - 53
                 unit == 2 ^ k
                 r == n.lo % unit
                 down == [hi |-> n.hi, lo |-> n.lo - r]
                 odd == (n.lo \div unit) % 2 = 1
                 up == 2 * r > unit \/ (2 * r = unit /\ odd)
             IN  IF up THEN AddSmall(down, unit) ELSE down

\* the body of SeededRandom.next: the new this.seed
nextSeed(seed) ==
    RoundToDouble(AddSmall(RoundToDouble(Multiply(seed)), LCG_INCREMENT)).lo

\* Math.floor(seed / 0x7fffffff * k) for 1 <= k <= 1024 and seed <= MASK31.
\* 0x7fffffff is prime, so seed * k / 0x7fffffff is an integer only for
\* seed = 0 and seed = 0x7fffffff, and elsewhere further from an integer than
\* the rounding errors of the two double operations: the floor is exact.
ScaleFloor(seed, k) ==
    LET sh == seed \div 65536
        sl == seed % 65536
        a == sh * k
        ah == a \div 32768
        al == a % 32768
        c == al * 65536
        bv == sl * k
        carry == bv > MASK31 - c
        r0 == IF carry THEN bv - (MASK31 - c) - 1 ELSE c + bv
        q0 == ah + (IF carry THEN 1 ELSE 0)
    IN  IF r0 >= MASK31 - q0 THEN q0 + 1 ELSE q0

\* new SeededRandom(RENDER_SEED) with the state of the generator of the
\* previous render kept (a generator shared between renders)
NewSeededRandomShared(previous) == previous

\* new SeededRandom(42): the generator state a render starts from; `previous`
\* is the state the generator of the previous render was left in
NewSeededRandom(previous) == RENDER_SEED

\* nextInt with Math.ceil for Math.floor
nextIntCeil(seedAfter, max) ==
    IF seedAfter = 0 THEN 0 ELSE ScaleFloor(seedAfter, max) + 1

\* SeededRandom.nextInt(max) on the seed after next()
nextInt(seedAfter, max) == ScaleFloor(seedAfter, max)

----------------------------------------------------------------------------
(* renderer.ts: selectEmoji / calculateGitHubIntensity / renderBitmap      *)

\* emoji.ts and themes.ts are not part of the sources
getBackgroundEmoji == <<IDSP>>
getThemeEmojis == << <<"G0">>, <<"G1">>, <<"G2">>, <<"G3">>, <<"G4">> >>
getThemeBackground == <<"G0">>

Modes == {"random", "row", "column", "row-gradient", "column-gradient"}

\* gradientIndex with progress = pos / total: the divisor off by one
gradientIndexOffByOne(pos, total, n) ==
    LET emojiIndex == IF total > 1 THEN (pos * (n - 1)) \div total ELSE 0
    IN  Min(emojiIndex, n - 1)

\* the index of the two gradient cases: Math.min(Math.floor(progress *
\* (n - 1)), n - 1) with progress = pos / (total - 1), or 0 when total <= 1
gradientIndex(pos, total, n) ==
    LET emojiIndex == IF total > 1 THEN (pos * (n - 1)) \div (total - 1) ELSE 0
    IN  Min(emojiIndex, n - 1)

\* emojis[random.nextInt(emojis.length)] with seedAfter the state next()
\* leaves the generator in
drawIndex(n, seedAfter) ==
    [index |-> nextInt(seedAfter, n), seed |-> seedAfter, drew |-> TRUE]

\* the switch of selectEmoji
selectByMode(n, row, col, totalRows, totalCols, mode, seed) ==
    CASE mode = "random" -> drawIndex(n, nextSeed(seed))
      [] mode = "row" -> [index |-> row % n, seed |-> seed, drew |-> FALSE]
      [] mode = "column" -> [index |-> col % n, seed |-> seed, drew |-> FALSE]
      [] mode = "row-gradient" ->
            [index |-> gradientIndex(row, totalRows, n), seed |-> seed, drew |-> FALSE]
      [] mode = "column-gradient" ->
            [index |-> gradientIndex(col, totalCols, n), seed |-> seed, drew |-> FALSE]
      [] OTHER -> [index |-> 0, seed |-> seed, drew |-> FALSE]

\* selectEmoji without the single-candidate shortcut
selectIndexNoShortcut(n, row, col, totalRows, totalCols, mode, seed) ==
    selectByMode(n, row, col, totalRows, totalCols, mode, seed)

\* selectEmoji with the generator seeded anew for every cell
selectIndexReseeded(n, row, col, totalRows, totalCols, mode, seed) ==
    IF n = 1 THEN [index |-> 0, seed |-> seed, drew |-> FALSE]
    ELSE selectByMode(n, row, col, totalRows, totalCols, mode, RENDER_SEED)

\* selectEmoji: the 0-based index into emojis (n = emojis.length), the
\* generator state afterwards and whether next() was called; row and col are
\* 0-based
selectIndex(n, row, col, totalRows, totalCols, mode, seed) ==
    IF n = 1 THEN [index |-> 0, seed |-> seed, drew |-> FALSE]
    ELSE selectByMode(n, row, col, totalRows, totalCols, mode, seed)

\* Math.sin(row * 0.5) and Math.cos(col * 0.5) in thousandths
SinHalf == <<0, 479, 841, 997, 909, 598, 141, -351, -757>>
CosHalf == <<1000, 878, 540, 71, -416, -801, -990, -936, -654>>

\* calculateGitHubIntensity on the seed after next(), in thousandths:
\* baseIntensity + Math.sin(row * 0.5) * Math.cos(col * 0.5) * 0.3
calculateGitHubIntensity(row, col, seedAfter) ==
    LET baseIntensity == ScaleFloor(seedAfter, 1000)
        spatialNoise == (SinHalf[row + 1] * CosHalf[col + 1] * 3) \div 10000
        combined == baseIntensity + spatialNoise
    IN  IF combined < 250 THEN 1
        ELSE IF combined < 500 THEN 2
        ELSE IF combined < 750 THEN 3
        ELSE 4

\* the emoji list renderBitmap selects from
effectiveEmojis(config) ==
    IF config.theme = "github" THEN getThemeEmojis ELSE config.foregroundEmojis

bgEmojiOf(config) ==
    IF Truthy(config.backgroundEmoji) THEN config.backgroundEmoji ELSE getBackgroundEmoji

RECURSIVE maxDisplayWidth(_)
\* Math.max(...sampleEmojis.map(getDisplayWidth)) of a non-empty list
maxDisplayWidth(list) ==
    IF Len(list) = 1 THEN getDisplayWidth(list[1])
    ELSE Max(getDisplayWidth(Head(list)), maxDisplayWidth(Tail(list)))

cellWidthOf(config) == Max(maxDisplayWidth(effectiveEmojis(config)), 2)

\* what renderBitmap computes before its loops
renderSetup(bm, config) ==
    LET cellWidth == cellWidthOf(config)
        height == Len(bm)
    IN  [emojis |-> effectiveEmojis(config),
         mode |-> config.mode,
         theme |-> config.theme,
         cellWidth |-> cellWidth,
         paddedBackground |-> fitToWidth(bgEmojiOf(config), cellWidth),
         height |-> height,
         width |-> IF height > 0 THEN Len(bm[1]) ELSE 0]

\* calculateGitHubIntensity as a selection: it always draws
githubIndex(row, col, seedAfter) ==
    [index |-> calculateGitHubIntensity(row, col, seedAfter), seed |-> seedAfter,
     drew |-> TRUE]

\* the foreground branch of the inner loop once rawEmoji is selected (sel):
\* the padded emoji appended to the line
placeEmoji(c, row, col, st, sel) ==
    IF sel.index + 1 \in DOMAIN c.emojis
    THEN [st EXCEPT !.seed = sel.seed,
                    !.draws = IF sel.drew THEN Append(@, <<row, col>>) ELSE @,
                    !.line = Append(@, fitToWidth(c.emojis[sel.index + 1],
                                                  c.cellWidth)),
                    !.pickLine = Append(@, sel.index)]
    ELSE \* rawEmoji is undefined: getDisplayWidth(undefined) throws
         [st EXCEPT !.seed = sel.seed,
                    !.draws = IF sel.drew THEN Append(@, <<row, col>>) ELSE @,
                    !.error = "TypeError"]

\* one iteration of the inner loop: cell (row, col), 0-based, appended to
\* the state st of the render; c is renderSetup
renderCell(bm, c, row, col, st) ==
    IF ~bm[row + 1][col + 1]
    THEN [st EXCEPT !.line = Append(@, c.paddedBackground),
                    !.pickLine = Append(@, -1)]
    ELSE IF c.theme = "github"
    THEN placeEmoji(c, row, col, st, githubIndex(row, col, nextSeed(st.seed)))
    ELSE placeEmoji(c, row, col, st,
                    selectIndex(Len(c.emojis), row, col, c.height, c.width, c.mode,
                                st.seed))

RECURSIVE renderLoop(_, _, _, _, _)
\* the two for loops from cell (row, col) on: lines.push(line) ends a row
renderLoop(bm, c, row, col, st) ==
    IF row >= c.height \/ st.error # "none" THEN st
    ELSE IF col >= c.width
    THEN renderLoop(bm, c, row + 1, 0,
                    [st EXCEPT !.cells = Append(@, st.line), !.line = <<>>,
                               !.picks = Append(@, st.pickLine), !.pickLine = <<>>])
    ELSE renderLoop(bm, c, row, col + 1, renderCell(bm, c, row, col, st))

\* the BannerResult returned after the loops (text as its lines joined by
\* the line break), and for the claims the cells of every line, the index
\* picked for every cell (-1 for background), the cells that drew from the
\* generator, in order, and the generator state at the start and at the end
bannerResult(bm, config, c, random, st) ==
    [text |-> IF st.error = "none"
              THEN Join([r \in 1..Len(st.cells) |-> Concat(st.cells[r])], <<LF>>)
              ELSE <<>>,
     backgroundEmoji |-> bgEmojiOf(config),
     bitmap |-> bm,
     width |-> c.width,
     height |-> c.height,
     cellWidth |-> c.cellWidth,
     cells |-> st.cells,
     picks |-> st.picks,
     draws |-> st.draws,
     seedStart |-> random,
     seedEnd |-> st.seed,
     error |-> st.error]

\* the loops of renderBitmap run from the generator state random, c being
\* renderSetup
renderFrom(bm, config, c, random) ==
    bannerResult(bm, config, c, random,
                 renderLoop(bm, c, 0, 0,
                            [seed |-> random, draws |-> <<>>, line |-> <<>>,
                             pickLine |-> <<>>, cells |-> <<>>, picks |-> <<>>,
                             error |-> "none"]))

\* renderBitmap(bm, config) with the generator created by NewSeededRandom
renderBitmap(bm, config, previous) ==
    renderFrom(bm, config, renderSetup(bm, config), NewSeededRandom(previous))

\* createDefaultConfig: a fifth argument (borderEmoji) is not a parameter
createDefaultConfig(foregroundEmojis, backgroundEmoji, mode, theme) ==
    [foregroundEmojis |-> foregroundEmojis,
     backgroundEmoji |-> IF Truthy(backgroundEmoji) THEN backgroundEmoji
                         ELSE getBackgroundEmoji,
     mode |-> mode,
     theme |-> theme]

\* emoji strings used as inputs
FIRE == <<"E1">>
STAR == <<"E2">>
\* a custom emoji alias (:a:), a text of three narrow characters (a.b), a
\* narrow character (.) and two emoji in one string
ALIAS == <<":", "a", ":">>
WORD == <<"a", ".", "b">>
DOT == <<".">>
DOUBLE == <<"E1", "E1">>

\* the config and the result before any render
NoConfig ==
    [foregroundEmojis |-> <<FIRE>>, backgroundEmoji |-> <<>>, mode |-> "random",
     theme |-> "default"]

NoResult ==
    [text |-> <<>>, backgroundEmoji |-> <<>>, bitmap |-> <<>>, width |-> 0,
     height |-> 0, cellWidth |-> 2, cells |-> <<>>, picks |-> <<>>, draws |-> <<>>,
     seedStart |-> RENDER_SEED, seedEnd |-> RENDER_SEED, error |-> "none"]

----------------------------------------------------------------------------
(* cli.ts: parseCLIOptions / validateOptions; index.ts: generateBanner /   *)
(* handleOutput / main                                                     *)

VALID_MODES == Modes
VALID_FORMATS == {"text", "slack"}
VALID_THEMES == {"default", "github"}

BORDER_ERROR == "Border requires a background emoji. Specify --background <emoji>."

\* the files of the run: one readable file (its content ends with a space)
\* and a path with no file
BANNER_TXT == <<"banner.txt">>
MISSING_TXT == <<"missing.txt">>

\* readTextFromFile: the trimmed content, or the Error thrown
readTextFromFile(filePath) ==
    IF filePath = BANNER_TXT
    THEN [error |-> "none", text |-> trim(<<"B", SPACE>>)]
    ELSE [error |-> "File not found", text |-> UNDEFINED]

\* parseCLIOptions on program.args[0] and program.opts(): the CLIOptions or
\* the Error thrown
parseCLIOptions(a) ==
    LET read == IF Truthy(a.file) THEN readTextFromFile(a.file)
                ELSE [error |-> "none", text |-> a.text]
    IN  IF read.error # "none" THEN [error |-> read.error, options |-> a]
        ELSE IF a.mode \notin VALID_MODES THEN [error |-> "Invalid mode", options |-> a]
        ELSE IF a.format \notin VALID_FORMATS
        THEN [error |-> "Invalid format", options |-> a]
        ELSE IF a.theme \notin VALID_THEMES THEN [error |-> "Invalid theme", options |-> a]
        ELSE [error |-> "none", options |-> [a EXCEPT !.text = read.text]]

\* validateOptions: "none" or the message of the Error thrown
validateOptions(o) ==
    IF ~Truthy(o.text) /\ ~Truthy(o.file) THEN "Text is required"
    ELSE IF ~Truthy(o.emoji) THEN "Emoji is required"
    ELSE IF Truthy(o.border)
            /\ ~(Truthy(o.background) \/ o.theme = "github")
    THEN BORDER_ERROR
    ELSE "none"

\* emoji.ts is not part of the sources: an emoji given directly resolves to
\* itself, a comma-separated list to its entries
resolveEmoji(e) == e
parseEmojis(e) == Split(e, ",")

\* the backgroundEmoji of generateBanner
resolveBackground(o) ==
    IF Truthy(o.background) THEN resolveEmoji(o.background)
    ELSE IF o.theme = "github" THEN getThemeBackground
    ELSE UNDEFINED

\* the borderEmoji of generateBanner once the border check has passed
resolveBorder(o, backgroundEmoji) ==
    IF ~Truthy(o.border) THEN UNDEFINED
    ELSE IF o.border # BOOL_TRUE THEN resolveEmoji(o.border)
    ELSE backgroundEmoji

\* what generateBanner has done when it throws before rendering
NoBanner ==
    [error |-> "none", borderEmoji |-> UNDEFINED, rasterized |-> FALSE,
     rendered |-> FALSE, config |-> NoConfig, result |-> NoResult]

\* generateBanner from "Render bitmap to emoji text" on: the BannerResult r
\* of renderBitmap is returned
bannerRendered(borderEmoji, config, r) ==
    [error |-> r.error, borderEmoji |-> borderEmoji, rasterized |-> TRUE,
     rendered |-> TRUE, config |-> config, result |-> r]

\* generateBanner from "Create render config" on, t being what textToBitmap
\* returned or threw.  createDefaultConfig is called with borderEmoji as a
\* fifth argument, which is no parameter of it.
bannerRasterized(borderEmoji, config, t) ==
    IF t.error # "none"
    THEN [NoBanner EXCEPT !.error = t.error, !.borderEmoji = borderEmoji,
                          !.rasterized = TRUE]
    ELSE bannerRendered(borderEmoji, config,
                        renderBitmap(t.bitmap, config, RENDER_SEED))

\* generateBanner from "Determine border emoji" on
bannerChecked(o, foregroundEmojis, backgroundEmoji) ==
    IF Truthy(o.border) /\ ~Truthy(backgroundEmoji)
    THEN [NoBanner EXCEPT !.error = BORDER_ERROR]
    ELSE bannerRasterized(resolveBorder(o, backgroundEmoji),
                        createDefaultConfig(foregroundEmojis, backgroundEmoji,
                                            o.mode, o.theme),
                        textToBitmap(o.text, o.font, FALSE))

\* generateBanner: the Error thrown or the BannerResult, with the calls made
\* on the way
generateBanner(o) ==
    bannerChecked(o, parseEmojis(o.emoji), resolveBackground(o))

\* the exit code of the process: process.exit(1) in the catch of main, 0 when
\* main returns
exitCodeAlwaysZero(err) == 0

exitStatus(err) == IF err = "none" THEN 0 ELSE 1

----------------------------------------------------------------------------
(* Inputs of renderBitmap *)

\* longest line rasterized alone, and most lines composed
MaxLineLen == 3
MaxLines == 3

\* the characters of the lines rasterized alone: glyphs of the fonts, a
\* lower-case letter, the space and a character no font has
LineChars == {"A", "B", "H", "I", "n", SPACE, "z"}
SingleLines == UNION {[1..k -> LineChars] : k \in 0..MaxLineLen}

\* the lines composed: a blank line, a line of background only, and lines of
\* three widths
ComposedLines == {<<>>, <<SPACE>>, <<"A">>, <<"H", "I">>, <<"z", "B">>}
LineLists == UNION {[1..k -> ComposedLines] : k \in 1..MaxLines}

\* largest bitmap rendered
MaxRows == 3
MaxCols == 2
\* longest foreground candidate list
MaxCandidates == 3
Glyphs == <<FIRE, ALIAS, WORD, DOT>>

\* the candidate lists: n consecutive glyphs of Glyphs (cyclically) from any
\* start
CandidateLists ==
    {[i \in 1..n |-> Glyphs[((start + i - 2) % Len(Glyphs)) + 1]] :
        start \in 1..Len(Glyphs), n \in 1..MaxCandidates}

\* <<>> is the empty string (no background configured)
Backgrounds == {<<>>, DOT, ALIAS, DOUBLE}

\* with the github theme the candidate list and the mode are not read: they
\* are kept at the defaults of the command line
Configs ==
    {[foregroundEmojis |-> f, backgroundEmoji |-> b, mode |-> m, theme |-> "default"] :
        f \in CandidateLists, b \in Backgrounds, m \in Modes}
    \cup {[foregroundEmojis |-> <<FIRE>>, backgroundEmoji |-> b, mode |-> "random",
           theme |-> "github"] : b \in Backgrounds}

Pattern(p, r, c) ==
    CASE p = "full" -> TRUE
      [] OTHER -> (r + c) % 2 = 0

\* the empty grid, and the full and the checkerboard bitmap of every size
\* within the bounds (zero columns included)
RenderBitmaps ==
    {<<>>} \cup {[r \in 1..h |-> [c \in 1..w |-> Pattern(p, r, c)]] :
                    h \in 1..MaxRows, w \in 0..MaxCols,
                    p \in {"full", "checker"}}

\* the renders made between a render and its repetition: one that draws
\* from the generator for every cell in mode random, one with the github
\* theme
BetweenInputs ==
    {[bitmap |-> << <<TRUE, TRUE>>, <<TRUE, TRUE>> >>,
      config |-> [foregroundEmojis |-> <<FIRE, STAR>>, backgroundEmoji |-> <<>>,
                  mode |-> "random", theme |-> "default"]],
     [bitmap |-> << <<TRUE>>, <<FALSE>>, <<TRUE>> >>,
      config |-> [foregroundEmojis |-> <<FIRE>>, backgroundEmoji |-> DOT,
                  mode |-> "random", theme |-> "github"]]}

\* what commander hands to parseCLIOptions: the text argument (absent, a
\* letter, a control character only), --emoji (empty, one emoji, two), a
\* background (absent, empty, given), --file, --copy, --format, --theme,
\* --mode, --font and --border (absent, empty, without emoji, with emoji)
Argvs ==
    [text : {UNDEFINED, <<"A">>, <<TAB>>},
     emoji : {<<>>, FIRE, <<"E1", ",", "E2">>},
     background : {UNDEFINED, <<>>, DOT},
     file : {UNDEFINED, BANNER_TXT, MISSING_TXT},
     copy : BOOLEAN,
     format : {"text", "slack"},
     theme : {"default", "github", "bogus"},
     mode : {"random", "row-gradient", "bogus"},
     font : {"block"},
     border : {UNDEFINED, <<>>, BOOL_TRUE, STAR}]

NoArgv ==
    [text |-> UNDEFINED, emoji |-> FIRE, background |-> UNDEFINED, file |-> UNDEFINED,
     copy |-> FALSE, format |-> "text", theme |-> "default", mode |-> "random",
     font |-> "block", border |-> UNDEFINED]

----------------------------------------------------------------------------
(* Specification of the text -> bitmap stage *)

InitText ==
    /\ op = "init"
    /\ text = UNDEFINED
    /\ fontName = "block"
    /\ vertical = FALSE
    /\ decoded = <<>>
    /\ lines = <<>>
    /\ bitmap = <<>>
    /\ error = "none"

InitTrim ==
    /\ trimIn = <<>>
    /\ trimOnce = <<>>
    /\ trimTwice = <<>>
    /\ trimCalls = 0

NoInput == [bitmap |-> <<>>, config |-> NoConfig]

InitRender ==
    /\ rphase = "idle"
    /\ rbitmap = <<>>
    /\ rconfig = NoConfig
    /\ result = NoResult
    /\ firstInput = NoInput
    /\ firstResult = [text |-> <<>>, error |-> "none"]
    /\ between = FALSE
    /\ generator = RENDER_SEED

InitMain ==
    /\ mpc = "start"
    /\ argv = NoArgv
    /\ options = NoArgv
    /\ mainError = "none"
    /\ rasterized = FALSE
    /\ rendered = FALSE
    /\ mconfig = NoConfig
    /\ banner = NoResult
    /\ printed = FALSE
    /\ copied = FALSE
    /\ exitCode = -1

InitCompose ==
    /\ cpc = "init"
    /\ clines = <<>>
    /\ cfont = "block"
    /\ cbitmaps = <<>>
    /\ cmerged = <<>>

InitSelect ==
    /\ spc = "idle"
    /\ smode = "random"
    /\ sn = 1
    /\ srandom = RENDER_SEED
    /\ sindex = -1

Init == InitText /\ InitTrim /\ InitRender /\ InitMain /\ InitCompose /\ InitSelect

\* textToBitmap(t, name, {vertical: vert}) is called
TextToBitmapCalled(t, name, vert) ==
    \E r \in {textToBitmap(t, name, vert)} :
        /\ op' = "textToBitmap"
        /\ text' = t
        /\ fontName' = name
        /\ vertical' = vert
        /\ decoded' = r.decoded
        /\ lines' = r.lines
        /\ bitmap' = r.bitmap
        /\ error' = r.error

\* a caller invokes textToBitmap
CallTextToBitmap ==
    /\ op = "init"
    /\ \E t \in Texts \cup {UNDEFINED}, name \in FontNames, vert \in BOOLEAN :
        TextToBitmapCalled(t, name, vert)
    /\ UNCHANGED <<trimVars, renderVars, mainVars, composeVars, selectVars>>

\* a caller invokes textToBitmap on a long text
CallLongText ==
    /\ op = "init"
    /\ \E t \in LongTexts, name \in FontNames, vert \in BOOLEAN :
        TextToBitmapCalled(t, name, vert)
    /\ UNCHANGED <<trimVars, renderVars, mainVars, composeVars, selectVars>>

\* the caller drops the result; the next call starts from the same state
\* (bitmap.ts keeps no state between calls)
ReturnText ==
    /\ op = "textToBitmap"
    /\ op' = "init"
    /\ text' = UNDEFINED
    /\ fontName' = "block"
    /\ vertical' = FALSE
    /\ decoded' = <<>>
    /\ lines' = <<>>
    /\ bitmap' = <<>>
    /\ error' = "none"
    /\ UNCHANGED <<trimVars, renderVars, mainVars, composeVars, selectVars>>

----------------------------------------------------------------------------
(* Specification of trimBitmap applied to its own result *)

\* the empty grid and every rectangular bitmap within the bounds, the sentinel
\* << <<>> >> and the all-background bitmaps among them
TrimBitmaps ==
    {<<>>} \cup UNION {[1..r -> [1..c -> BOOLEAN]] :
                        r \in 1..MaxTrimRows, c \in 0..MaxTrimCols}

\* trimBitmap(b)
CallTrim ==
    /\ trimCalls = 0
    /\ \E b \in TrimBitmaps :
        /\ trimIn' = b
        /\ trimOnce' = trimBitmap(b)
    /\ trimCalls' = 1
    /\ UNCHANGED trimTwice
    /\ UNCHANGED <<textVars, renderVars, mainVars, composeVars, selectVars>>

\* trimBitmap applied to the bitmap the previous call returned
CallTrimAgain ==
    /\ trimCalls = 1
    /\ trimTwice' = trimBitmap(trimOnce)
    /\ trimCalls' = 2
    /\ UNCHANGED <<trimIn, trimOnce>>
    /\ UNCHANGED <<textVars, renderVars, mainVars, composeVars, selectVars>>

ReturnTrim ==
    /\ trimCalls = 2
    /\ trimIn' = <<>>
    /\ trimOnce' = <<>>
    /\ trimTwice' = <<>>
    /\ trimCalls' = 0
    /\ UNCHANGED <<textVars, renderVars, mainVars, composeVars, selectVars>>

----------------------------------------------------------------------------
(* Specification of repeated renders *)

\* the first render of a bitmap with a config
RenderFirst ==
    /\ rphase = "idle"
    /\ \E bm \in RenderBitmaps, config \in Configs :
        /\ rbitmap' = bm
        /\ rconfig' = config
        /\ result' = renderBitmap(bm, config, generator)
        /\ firstInput' = [bitmap |-> bm, config |-> config]
        /\ firstResult' = [text |-> result'.text, error |-> result'.error]
        /\ generator' = result'.seedEnd
    /\ rphase' = "first"
    /\ between' = FALSE
    /\ UNCHANGED <<textVars, trimVars, mainVars, composeVars, selectVars>>

\* a render of another input, any number of times
RenderBetween ==
    /\ rphase \in {"first", "between"}
    /\ \E x \in BetweenInputs :
        /\ rbitmap' = x.bitmap
        /\ rconfig' = x.config
        /\ result' = renderBitmap(x.bitmap, x.config, generator)
        /\ generator' = result'.seedEnd
    /\ rphase' = "between"
    /\ between' = TRUE
    /\ UNCHANGED <<firstInput, firstResult, textVars, trimVars, mainVars,
                   composeVars, selectVars>>

\* the first input rendered again
RenderAgain ==
    /\ rphase \in {"first", "between"}
    /\ rbitmap' = firstInput.bitmap
    /\ rconfig' = firstInput.config
    /\ result' = renderBitmap(firstInput.bitmap, firstInput.config, generator)
    /\ generator' = result'.seedEnd
    /\ rphase' = "again"
    /\ UNCHANGED <<firstInput, firstResult, between, textVars, trimVars, mainVars,
                   composeVars, selectVars>>

\* the caller drops the results (renderer.ts keeps no state between calls)
RenderReturn ==
    /\ rphase = "again"
    /\ rphase' = "idle"
    /\ rbitmap' = <<>>
    /\ rconfig' = NoConfig
    /\ result' = NoResult
    /\ firstInput' = NoInput
    /\ firstResult' = [text |-> <<>>, error |-> "none"]
    /\ between' = FALSE
    /\ generator' = RENDER_SEED
    /\ UNCHANGED <<textVars, trimVars, mainVars, composeVars, selectVars>>

----------------------------------------------------------------------------
(* Specification of one run of the command line program (main) *)

\* main: createCLI, program.parse and parseCLIOptions
ParseCLI ==
    /\ mpc = "start"
    /\ \E a \in Argvs :
        /\ argv' = a
        /\ options' = parseCLIOptions(a).options
        /\ mainError' = parseCLIOptions(a).error
    /\ mpc' = IF mainError' = "none" THEN "parsed" ELSE "catch"
    /\ UNCHANGED <<rasterized, rendered, mconfig, banner, printed, copied, exitCode>>
    /\ UNCHANGED <<textVars, trimVars, renderVars, composeVars, selectVars>>

\* main: validateOptions(options)
ValidateOptions ==
    /\ mpc = "parsed"
    /\ mainError' = validateOptions(options)
    /\ mpc' = IF mainError' = "none" THEN "validated" ELSE "catch"
    /\ UNCHANGED <<argv, options, rasterized, rendered, mconfig, banner, printed,
                   copied, exitCode>>
    /\ UNCHANGED <<textVars, trimVars, renderVars, composeVars, selectVars>>

\* main: await generateBanner(options)
GenerateBanner ==
    /\ mpc = "validated"
    /\ \E g \in {generateBanner(options)} :
           /\ mainError' = g.error
           /\ rasterized' = g.rasterized
           /\ rendered' = g.rendered
           /\ mconfig' = g.config
           /\ banner' = g.result
    /\ mpc' = IF mainError' = "none" THEN "generated" ELSE "catch"
    /\ UNCHANGED <<argv, options, printed, copied, exitCode>>
    /\ UNCHANGED <<textVars, trimVars, renderVars, composeVars, selectVars>>

\* main: await handleOutput(result, options); copyToClipboard succeeds or
\* throws (the Error is caught in handleOutput), then the banner is printed
HandleOutput ==
    /\ mpc = "generated"
    /\ \E clipboard \in BOOLEAN : copied' = (options.copy /\ clipboard)
    /\ printed' = TRUE
    /\ mpc' = "done"
    /\ UNCHANGED <<argv, options, mainError, rasterized, rendered, mconfig, banner,
                   exitCode>>
    /\ UNCHANGED <<textVars, trimVars, renderVars, composeVars, selectVars>>

\* the end of the process: main returns, or its catch runs handleError and
\* process.exit(1)
Exit ==
    /\ mpc \in {"done", "catch"}
    /\ exitCode' = exitStatus(mainError)
    /\ mpc' = "exited"
    /\ UNCHANGED <<argv, options, mainError, rasterized, rendered, mconfig, banner,
                   printed, copied>>
    /\ UNCHANGED <<textVars, trimVars, renderVars, composeVars, selectVars>>

----------------------------------------------------------------------------
(* Specification of rasterizing and composing lines *)

\* textToBitmap line 213: every line of ls is rasterized with the font
Rasterized(ls, name) ==
    /\ cpc = "init"
    /\ cpc' = "rasterized"
    /\ clines' = ls
    /\ cfont' = name
    /\ cbitmaps' = [i \in 1..Len(ls) |-> renderLineToBitmap(ls[i], getFont(name))]
    /\ UNCHANGED cmerged
    /\ UNCHANGED <<textVars, trimVars, renderVars, mainVars, selectVars>>

\* a text of one line
RasterizeLine == \E line \in SingleLines, name \in FontNames : Rasterized(<<line>>, name)

\* a text of several lines
RasterizeLines == \E ls \in LineLists, name \in FontNames : Rasterized(ls, name)

\* textToBitmap line 215: mergeLines(lineBitmaps, font.lineSpacing)
MergeLines ==
    /\ cpc = "rasterized"
    /\ cpc' = "merged"
    /\ cmerged' = mergeLines(cbitmaps, getFont(cfont).lineSpacing)
    /\ UNCHANGED <<clines, cfont, cbitmaps>>
    /\ UNCHANGED <<textVars, trimVars, renderVars, mainVars, selectVars>>

\* textToBitmap returns; the next call starts from the same state
ReturnMerged ==
    /\ cpc = "merged"
    /\ cpc' = "init"
    /\ clines' = <<>>
    /\ cfont' = "block"
    /\ cbitmaps' = <<>>
    /\ cmerged' = <<>>
    /\ UNCHANGED <<textVars, trimVars, renderVars, mainVars, selectVars>>

----------------------------------------------------------------------------
(* Specification of the selections of one render *)

\* renderBitmap is entered: the mode and the candidates are fixed and the
\* generator is created
StartRender ==
    /\ spc = "idle"
    /\ spc' = "render"
    /\ \E mode \in Modes, n \in 1..MaxCandidates :
          /\ smode' = mode
          /\ sn' = n
    /\ srandom' = NewSeededRandom(srandom)
    /\ sindex' = -1
    /\ UNCHANGED <<textVars, trimVars, renderVars, mainVars, composeVars>>

\* selectEmoji(emojis, row, col, totalRows, totalCols, mode, random) for a
\* foreground cell
Selected(row, col, totalRows, totalCols) ==
    /\ spc = "render"
    /\ \E sel \in {selectIndex(sn, row, col, totalRows, totalCols, smode, srandom)} :
          /\ sindex' = sel.index
          /\ srandom' = sel.seed
    /\ UNCHANGED <<spc, smode, sn>>
    /\ UNCHANGED <<textVars, trimVars, renderVars, mainVars, composeVars>>

\* a selection in mode random, which reads no position (lines 138-139)
SelectRandom ==
    /\ smode = "random"
    /\ Selected(0, 0, 1, 1)

\* a selection in another mode, for any cell of any bitmap within the bounds
SelectByPosition ==
    /\ smode # "random"
    /\ \E totalRows \in 1..MaxRows, totalCols \in 1..MaxCols :
          \E row \in 0..(totalRows - 1), col \in 0..(totalCols - 1) :
              Selected(row, col, totalRows, totalCols)

\* renderBitmap returns; the generator is dropped with it
EndRender ==
    /\ spc = "render"
    /\ spc' = "idle"
    /\ smode' = "random"
    /\ sn' = 1
    /\ srandom' = RENDER_SEED
    /\ sindex' = -1
    /\ UNCHANGED <<textVars, trimVars, renderVars, mainVars, composeVars>>

vars == <<textVars, trimVars, renderVars, mainVars, composeVars, selectVars>>

Next == CallTextToBitmap \/ ReturnText

Spec == Init /\ [][Next]_vars

NextLong == CallLongText \/ ReturnText

SpecLong == Init /\ [][NextLong]_vars

NextCompose == RasterizeLine \/ RasterizeLines \/ MergeLines \/ ReturnMerged

SpecCompose == Init /\ [][NextCompose]_vars

NextSelect == StartRender \/ SelectRandom \/ SelectByPosition \/ EndRender

SpecSelect == Init /\ [][NextSelect]_vars

NextTrim == CallTrim \/ CallTrimAgain \/ ReturnTrim

SpecTrim == Init /\ [][NextTrim]_vars

NextRender == RenderFirst \/ RenderBetween \/ RenderAgain \/ RenderReturn

SpecRender == Init /\ [][NextRender]_vars

NextMain == ParseCLI \/ ValidateOptions \/ GenerateBanner \/ HandleOutput \/ Exit

SpecMain == Init /\ [][NextMain]_vars

----------------------------------------------------------------------------
(* Claims about the text -> bitmap stage *)

Returned == op = "textToBitmap" /\ error = "none"

\* C2: every bitmap textToBitmap returns is rectangular: validateBitmap holds
\* and every row is as long as the width getBitmapDimensions reports.
C2_Rectangular ==
    Returned =>
        /\ validateBitmap(bitmap)
        /\ \A r \in 1..Len(bitmap) :
              Len(bitmap[r]) = getBitmapDimensions(bitmap).width

\* a returned bitmap of several rows whose lines were rasterized to
\* different widths
C2_Witness ==
    /\ Returned
    /\ Len(bitmap) >= 2
    /\ \E i, j \in 1..Len(lines) :
          LET bi == renderLineToBitmap(lines[i], getFont(fontName))
              bj == renderLineToBitmap(lines[j], getFont(fontName))
          IN  Len(bi) > 0 /\ Len(bi[1]) < Len(bj[1])

RECURSIVE EscapePairs(_)
\* the decoding the claim states: a backslash is paired with the character
\* after it
EscapePairs(t) ==
    IF t = <<>> THEN <<>>
    ELSE IF Head(t) # BACKSLASH THEN <<Head(t)>> \o EscapePairs(Tail(t))
    ELSE IF Len(t) = 1 THEN <<BACKSLASH>>
    ELSE (CASE t[2] = "n" -> <<LF>>
            [] t[2] = BACKSLASH -> <<BACKSLASH>>
            [] OTHER -> <<BACKSLASH, t[2]>>) \o EscapePairs(SubSeq(t, 3, Len(t)))

\* C6: escape decoding pairs each backslash with the next character
\* (backslash n -> line break, backslash backslash -> backslash, other pairs
\* and a final backslash kept); A\nB is rasterized as the lines A and B,
\* A\\B as the one line A\B, and \\n decodes to backslash n.
C6_EscapeDecoding ==
    (op = "textToBitmap" /\ text # UNDEFINED /\ text # <<>>) =>
        /\ decoded = EscapePairs(text)
        /\ (text = <<"A", BACKSLASH, "n", "B">> /\ ~vertical) =>
              (error = "none" /\ lines = << <<"A">>, <<"B">> >>)
        /\ (text = <<"A", BACKSLASH, BACKSLASH, "B">> /\ ~vertical) =>
              (error = "none" /\ lines = << <<"A", BACKSLASH, "B">> >>)
        /\ (text = <<BACKSLASH, BACKSLASH, "n">>) => decoded = <<BACKSLASH, "n">>

C6_Witness ==
    /\ op = "textToBitmap"
    /\ text = <<"A", BACKSLASH, BACKSLASH, "B">>
    /\ ~vertical
    /\ lines = << <<"A", BACKSLASH, "B">> >>

RECURSIVE StackChars(_)
\* the characters of a line separated by line breaks
StackChars(line) ==
    IF Len(line) <= 1 THEN line
    ELSE <<Head(line), LF>> \o StackChars(Tail(line))

RECURSIVE StackLines(_)
\* consecutive lines separated by one empty line
StackLines(ls) ==
    IF Len(ls) = 1 THEN StackChars(ls[1])
    ELSE StackChars(ls[1]) \o <<LF, LF>> \o StackLines(Tail(ls))

\* the lines of a raw text: after escape decoding and line-ending
\* normalization
OriginalLines(t) == Split(replaceCR(replaceCRLF(decodeEscapes(t))), LF)

\* C7: textToBitmap with vertical enabled returns what textToBitmap without
\* vertical returns for the text with each line's characters separated by
\* line breaks and the lines separated by one empty line; AB stacked equals
\* the two lines A and B.
C7_VerticalStacking ==
    (op = "textToBitmap" /\ vertical /\ text # UNDEFINED /\ text # <<>>) =>
        LET flat == textToBitmap(StackLines(OriginalLines(text)), fontName, FALSE)
        IN  /\ flat.error = error
            /\ flat.bitmap = bitmap
            /\ text = <<"A", "B">> =>
                  bitmap = textToBitmap(<<"A", LF, "B">>, fontName, FALSE).bitmap

\* a vertical call on a text of two lines, one of them with two characters
C7_Witness ==
    /\ Returned
    /\ vertical
    /\ Len(OriginalLines(text)) = 2
    /\ \E i \in 1..2 : Len(OriginalLines(text)[i]) >= 2
    /\ Len(bitmap) > getFont(fontName).height

\* C9: textToBitmap fails exactly when the raw text is missing or empty, or
\* empty after escape decoding, line-ending normalization and stripping of
\* the control characters.
C9_EmptyInputFails ==
    op = "textToBitmap" =>
        (error # "none" <=>
            \/ text = UNDEFINED
            \/ text = <<>>
            \/ sanitize(replaceCR(replaceCRLF(decodeEscapes(text)))) = <<>>)

----------------------------------------------------------------------------
(* Claims about trimBitmap *)

\* C8: trimBitmap(trimBitmap(b)) = trimBitmap(b) for every bitmap b.
C8_TrimIdempotent ==
    trimCalls = 2 => trimTwice = trimOnce

\* the second trim of a bitmap whose first trim removed rows and kept a
\* foreground row
C8_Witness ==
    /\ trimCalls = 2
    /\ Len(trimOnce) < Len(trimIn)
    /\ \E r \in 1..Len(trimOnce) : ~RowEmpty(trimOnce[r])

----------------------------------------------------------------------------
(* Claims about renderBitmap *)

\* a render has returned a BannerResult
Rendered == rphase # "idle" /\ result.error = "none"

\* the foreground cells of the latest render, as <<row, col>>, 1-based
ForegroundCells ==
    {rc \in (1..Len(rbitmap)) \X (1..result.width) : rbitmap[rc[1]][rc[2]]}

\* C1: every emitted cell measures cellWidth under getDisplayWidth, with
\* cellWidth = max(largest display width among the candidates, 2), so every
\* line has the display width columns x cellWidth; custom-alias tokens and
\* candidates or backgrounds narrower or wider than cellWidth included.
C1_UniformCellWidth ==
    Rendered =>
        /\ result.cellWidth = Max(maxDisplayWidth(effectiveEmojis(rconfig)), 2)
        /\ \A r \in 1..Len(result.cells) :
              /\ Len(result.cells[r]) = result.width
              /\ \A c \in 1..Len(result.cells[r]) :
                    getDisplayWidth(result.cells[r][c]) = result.cellWidth

\* C3: a render repeated with the same bitmap and config returns the same
\* text, whatever was rendered before or in between, and every render starts
\* its generator from the fixed seed.
C3_Deterministic ==
    /\ rphase # "idle" => result.seedStart = RENDER_SEED
    /\ rphase = "again" =>
          /\ result.text = firstResult.text
          /\ result.error = firstResult.error

\* a repeated render, after renders of other inputs, that drew from the
\* generator for several cells and picked different candidates, while the
\* generator of the render before it was left away from the seed
C3_Witness ==
    /\ rphase = "again"
    /\ between
    /\ result.error = "none"
    /\ Len(result.draws) >= 2
    /\ result.seedEnd # RENDER_SEED
    /\ \E a, b \in ForegroundCells :
          result.picks[a[1]][a[2]] # result.picks[b[1]][b[2]]

\* the candidate list renderBitmap selects from has one entry
SingleCandidate == Rendered /\ Len(effectiveEmojis(rconfig)) = 1

RowGradient ==
    /\ Rendered
    /\ rconfig.theme = "default"
    /\ rconfig.mode = "row-gradient"
    /\ Len(rconfig.foregroundEmojis) >= 2

\* the index picked for the foreground cells of row r (1-based)
RowPicks(r) == {result.picks[rc[1]][rc[2]] : rc \in {x \in ForegroundCells : x[1] = r}}

\* the index of row r (0-based) the claim states
StatedRowIndex(r, totalRows, n) ==
    IF totalRows = 1 THEN 0
    ELSE LET i == (r * (n - 1)) \div (totalRows - 1)
         IN  IF i > n - 1 THEN n - 1 ELSE i

\* the parts of C5 that hold for every height: the index of a row is the
\* stated one, it is 0 at row 0 and it never decreases from a row to a later
\* row
RowGradientCommon ==
    LET n == Len(rconfig.foregroundEmojis)
    IN  /\ \A r \in 1..result.height :
              RowPicks(r) \subseteq {StatedRowIndex(r - 1, result.height, n)}
        /\ result.height >= 1 => RowPicks(1) \subseteq {0}
        /\ \A r1, r2 \in 1..result.height :
              r1 <= r2 => \A i \in RowPicks(r1) : \A j \in RowPicks(r2) : i <= j

\* C5 (as stated): for every totalRows >= 1 the index is also N-1 at the
\* last row.
C5_RowGradientAllHeights ==
    RowGradient =>
        /\ RowGradientCommon
        /\ result.height >= 1 =>
              RowPicks(result.height) \subseteq {Len(rconfig.foregroundEmojis) - 1}

\* C5 (amended): the index is N-1 at the last row when there are at least
\* two rows; with a single row it is 0.
C5_RowGradient ==
    RowGradient =>
        /\ RowGradientCommon
        /\ result.height >= 2 =>
              RowPicks(result.height) \subseteq {Len(rconfig.foregroundEmojis) - 1}
        /\ result.height = 1 => RowPicks(1) \subseteq {0}

\* three rows, three candidates, a foreground cell in every row: the rows
\* pick 0, 1 and 2
C5_Witness ==
    /\ RowGradient
    /\ result.height = 3
    /\ Len(rconfig.foregroundEmojis) = 3
    /\ RowPicks(1) = {0}
    /\ RowPicks(2) = {1}
    /\ RowPicks(3) = {2}

----------------------------------------------------------------------------
(* Claims about the command line run *)

\* a border is requested, no --background is given and the theme is not
\* github
BorderWithoutBackground ==
    /\ Truthy(argv.border)
    /\ ~Truthy(argv.background)
    /\ argv.theme # "github"

\* a border is requested and a background is resolvable
BorderWithBackground ==
    /\ Truthy(argv.border)
    /\ (Truthy(argv.background) \/ argv.theme = "github")

\* C10: a border requested without a resolvable background ends the run with
\* exit code 1 before anything is rasterized, rendered, printed or copied,
\* and with the border error when parseCLIOptions accepted the command line
\* and a text and an emoji are given; a border requested with a resolvable
\* background never raises the border error.
C10_BorderNeedsBackground ==
    /\ (mpc # "start" /\ BorderWithoutBackground) =>
          /\ ~rasterized /\ ~rendered /\ ~printed /\ ~copied
          /\ mpc \notin {"validated", "generated", "done"}
          /\ mpc = "exited" => exitCode = 1
          /\ (mpc \in {"catch", "exited"} /\ parseCLIOptions(argv).error = "none"
              /\ (Truthy(options.text) \/ Truthy(options.file))
              /\ Truthy(options.emoji)) => mainError = BORDER_ERROR
    /\ (mpc # "start" /\ BorderWithBackground) => mainError # BORDER_ERROR

\* the run of a command line that is valid but for the border has exited
C10_Witness ==
    /\ mpc = "exited"
    /\ BorderWithoutBackground
    /\ mainError = BORDER_ERROR
    /\ exitCode = 1
    /\ argv.text = <<"A">>
    /\ argv.copy

----------------------------------------------------------------------------
(* Claims about the length cap and about rasterizing and composing lines *)

\* the sanitized text of the latest call: the raw text after escape decoding,
\* line-ending normalization, stacking (vertical) and control-character
\* stripping
SanitizedText == sanitize(normalizeTextInput(text, vertical))

\* the first n characters of s, all of s when it is shorter
FirstChars(s, n) == [i \in 1..(IF Len(s) < n THEN Len(s) ELSE n) |-> s[i]]

\* C11: the lines that are rasterized are the lines of the first 100
\* characters of the sanitized text (of all of it when it is shorter); a
\* longer text is truncated, not rejected, vertical or not.
C11_LengthCap ==
    (op = "textToBitmap" /\ text # UNDEFINED) =>
        /\ (error = "none") = (Len(SanitizedText) > 0)
        /\ error = "none" =>
              /\ Join(lines, <<LF>>) = FirstChars(SanitizedText, 100)
              /\ lines = Split(FirstChars(SanitizedText, 100), LF)

\* a vertical call whose sanitized text is longer than 100 characters while
\* the raw text is shorter, and which contained control characters
C11_Witness ==
    /\ Returned
    /\ vertical
    /\ Len(text) < 100
    /\ Len(SanitizedText) > 100
    /\ \E i \in 1..Len(text) : text[i] = TAB
    /\ Len(Join(lines, <<LF>>)) = 100

\* the longest row of a pattern, 0 for the empty pattern
PatternWidth(pattern) ==
    IF pattern = <<>> THEN 0
    ELSE CHOOSE w \in {Len(pattern[i]) : i \in DOMAIN pattern} :
            \A i \in DOMAIN pattern : Len(pattern[i]) <= w

\* the width of the k-th character of the line
CharWidth(line, k, font) == PatternWidth(getCharacterPattern(line[k], font))

RECURSIVE ColumnsBefore(_, _, _)
\* the columns to the left of the k-th character: the characters before it,
\* each followed by the letter spacing
ColumnsBefore(line, k, font) ==
    IF k = 1 THEN 0
    ELSE ColumnsBefore(line, k - 1, font) + CharWidth(line, k - 1, font)
         + font.letterSpacing

\* sum of the character widths + letterSpacing x (n - 1); 0 for no character
StatedLineWidth(line, font) ==
    IF line = <<>> THEN 0
    ELSE ColumnsBefore(line, Len(line), font) + CharWidth(line, Len(line), font)

\* the pattern has the glyph marker in row r at position c
Marked(pattern, r, c) ==
    r <= Len(pattern) /\ c <= Len(pattern[r]) /\ pattern[r][c] = "#"

\* rows is the line rasterized as C13 states it
LineAsStated(line, font, rows) ==
    /\ Len(rows) = font.height
    /\ \A r \in 1..Len(rows) :
          /\ Len(rows[r]) = StatedLineWidth(line, font)
          /\ \A k \in 1..Len(line) :
                /\ \A c \in 1..CharWidth(line, k, font) :
                      rows[r][ColumnsBefore(line, k, font) + c]
                          = Marked(getCharacterPattern(line[k], font), r, c)
                /\ k < Len(line) =>
                      \A sp \in 1..font.letterSpacing :
                          ~rows[r][ColumnsBefore(line, k, font)
                                   + CharWidth(line, k, font) + sp]

\* C13: a rasterized line of n characters has font.height rows, each of the
\* summed character widths (longest pattern row) + letterSpacing x (n - 1)
\* columns; a cell is foreground exactly where the pattern row has the glyph
\* marker, rows the pattern lacks are background, spacing columns are
\* background and none follows the last character; an empty line has
\* font.height rows of zero columns.
C13_LineRasterized ==
    cpc \in {"rasterized", "merged"} =>
        /\ Len(cbitmaps) = Len(clines)
        /\ \A i \in 1..Len(clines) :
              LineAsStated(clines[i], getFont(cfont), cbitmaps[i])

\* the text HI is rasterized with the regular font: width(H) = 3, one spacing
\* column, width(I) = 1
C13_Witness ==
    /\ cpc = "rasterized"
    /\ clines = << <<"H", "I">> >>
    /\ cfont = "block"
    /\ cbitmaps = << << <<TRUE, FALSE, TRUE, FALSE, TRUE>>,
                       <<TRUE, TRUE, TRUE, FALSE, TRUE>>,
                       <<TRUE, FALSE, TRUE, FALSE, TRUE>> >> >>

\* the greatest width among the line bitmaps (every row counted)
MaxLineWidth ==
    LET ws == {Len(cbitmaps[i][r]) : i \in 1..Len(cbitmaps), r \in 1..getFont(cfont).height}
    IN  IF ws = {} THEN 0 ELSE CHOOSE w \in ws : \A v \in ws : v <= w

\* rows a line takes in the stack: its font.height rows and, but for the last
\* line, lineSpacing rows
BlockHeight == getFont(cfont).height + getFont(cfont).lineSpacing

StackHeight == Len(cbitmaps) * BlockHeight - getFont(cfont).lineSpacing

\* row n of the stack of the lines in input order: row n of its line padded
\* on the right with background to the greatest width, or a spacing row
StackRow(n) ==
    LET i == ((n - 1) \div BlockHeight) + 1
        r == ((n - 1) % BlockHeight) + 1
    IN  [c \in 1..MaxLineWidth |->
            /\ r <= getFont(cfont).height
            /\ c <= Len(cbitmaps[i][r])
            /\ cbitmaps[i][r][c]]

ForegroundRows == {n \in 1..StackHeight : \E c \in 1..MaxLineWidth : StackRow(n)[c]}

FirstForegroundRow == CHOOSE n \in ForegroundRows : \A m \in ForegroundRows : n <= m
LastForegroundRow == CHOOSE n \in ForegroundRows : \A m \in ForegroundRows : m <= n

\* the composed bitmap is the stack from its first to its last foreground
\* row, every row of the greatest line width
ComposedAsStated ==
    /\ \A n \in 1..Len(cmerged) : Len(cmerged[n]) = MaxLineWidth
    /\ IF ForegroundRows = {} THEN Len(cmerged) <= StackHeight
       ELSE cmerged = [n \in 1..(LastForegroundRow - FirstForegroundRow + 1) |->
                          StackRow(FirstForegroundRow + n - 1)]

\* C14 as stated: for every list of line bitmaps the composed bitmap has the
\* greatest line width, every line is padded on the right to it, the lines
\* follow each other in input order with lineSpacing background rows between
\* them, and only leading and trailing all-background rows are removed.
C14_NeverRemovesColumns == cpc = "merged" => ComposedAsStated

\* C14, amended: the same for every list of line bitmaps with a foreground
\* cell; when every cell is background the composed bitmap is the sentinel
\* of one row of zero columns, whatever the width of the lines.
C14_Composed ==
    cpc = "merged" =>
        IF ForegroundRows = {} THEN cmerged = << <<>> >> ELSE ComposedAsStated

\* three lines of different widths are composed: the leading line of
\* background and its spacing row are removed, the spacing row between the
\* second and the third line is kept, the third line is padded
C14_Witness ==
    /\ cpc = "merged"
    /\ cfont = "block"
    /\ clines = << <<SPACE>>, <<"H", "I">>, <<"A">> >>
    /\ FirstForegroundRow = BlockHeight + 1
    /\ Len(cmerged) = 2 * BlockHeight - 1
    /\ cmerged[BlockHeight] = [c \in 1..MaxLineWidth |-> FALSE]
    /\ cmerged[BlockHeight + 1] = <<TRUE, TRUE, FALSE, FALSE, FALSE>>

-----------------------------------------------------------------------------
(* Claims about the draws of a render and the index selected *)

\* a render in mode random with at least two candidates
RandomRender ==
    /\ Rendered
    /\ rconfig.theme = "default"
    /\ rconfig.mode = "random"
    /\ Len(rconfig.foregroundEmojis) >= 2

\* the cells of the latest bitmap in row-major order, as <<row, col>>, 0-based
CellsInOrder ==
    [k \in 1..(result.height * result.width) |->
        <<(k - 1) \div result.width, (k - 1) % result.width>>]

\* the foreground cells in row-major order
ForegroundInOrder ==
    SelectSeq(CellsInOrder, LAMBDA rc : rbitmap[rc[1] + 1][rc[2] + 1])

RECURSIVE SeedAfter(_)
\* the state of a generator seeded with 42 after k draws
SeedAfter(k) == IF k = 0 THEN RENDER_SEED ELSE nextSeed(SeedAfter(k - 1))

\* C15: in mode random with at least two candidates a render seeds one
\* generator once and draws from it once per foreground cell in row-major
\* order: the k-th foreground cell holds the candidate of the k-th draw,
\* background cells draw nothing, and the generator is not seeded again
\* between cells or rows.
C15_OneDrawPerForegroundCell ==
    RandomRender =>
        LET emojis == rconfig.foregroundEmojis
        IN  /\ result.seedStart = RENDER_SEED
            /\ result.draws = ForegroundInOrder
            /\ result.seedEnd = SeedAfter(Len(ForegroundInOrder))
            /\ \A k \in 1..Len(ForegroundInOrder) :
                  LET row == ForegroundInOrder[k][1] + 1
                      col == ForegroundInOrder[k][2] + 1
                      drawn == nextInt(SeedAfter(k), Len(emojis))
                  IN  /\ result.picks[row][col] = drawn
                      /\ result.cells[row][col]
                            = fitToWidth(emojis[drawn + 1], result.cellWidth)
            /\ \A rc \in (1..result.height) \X (1..result.width) :
                  ~rbitmap[rc[1]][rc[2]] => result.picks[rc[1]][rc[2]] = -1

\* a checkerboard of three rows and two columns rendered in mode random with
\* three candidates: three draws, separated by background cells, that pick
\* different candidates
C15_Witness ==
    /\ RandomRender
    /\ Len(rconfig.foregroundEmojis) = 3
    /\ result.height = 3
    /\ result.width = 2
    /\ result.draws = << <<0, 0>>, <<1, 1>>, <<2, 0>> >>
    /\ result.picks[2][2] # result.picks[3][1]

\* C16: in every mode, for every number N >= 1 of candidates and every cell
\* position, the index selectEmoji uses is within 0..N-1; every state the
\* generator takes, after any number of draws, is below 0x7fffffff, so that
\* next() is below 1 and nextInt(N) below N.
C16_IndexInRange ==
    spc = "render" =>
        /\ sindex # -1 => sindex \in 0..(sn - 1)
        /\ srandom \in 0..(MASK31 - 1)
        /\ \A n \in 1..MaxCandidates : nextInt(srandom, n) \in 0..(n - 1)

\* the generator has reached the greatest state it takes, 2147470080 of at
\* most 2147483647, and the last candidate was selected
C16_Witness ==
    /\ spc = "render"
    /\ smode = "random"
    /\ sn = MaxCandidates
    /\ srandom = 2147470080
    /\ sindex = sn - 1

-----------------------------------------------------------------------------
(* Claim about the outer border *)

\* obj.borderEmoji, an optional property of RenderConfig and BannerResult
\* (types.ts lines 68 and 115): undefined when the object was built without
borderEmojiOf(obj) ==
    IF "borderEmoji" \in DOMAIN obj THEN obj.borderEmoji ELSE UNDEFINED

\* generateBanner has returned a banner for a command line with --border
BorderedBannerGenerated ==
    /\ mpc \in {"generated", "done", "exited"}
    /\ mainError = "none"
    /\ rendered
    /\ Truthy(options.border)

\* the border emoji the banner is to have: the one given with --border, the
\* background emoji when --border is given alone
RequestedBorder ==
    IF options.border = BOOL_TRUE THEN resolveBackground(options)
    ELSE resolveEmoji(options.border)

\* the cell holds the emoji e, padded or not
IsCellOf(cell, e) == Len(cell) >= Len(e) /\ SubSeq(cell, 1, Len(e)) = e

\* the cells are those of a bitmap of height x width cells inside a frame of
\* cells of e, one cell wide
Framed(cells, height, width, e) ==
    /\ Len(cells) = height + 2
    /\ \A r \in 1..Len(cells) :
          /\ Len(cells[r]) = width + 2
          /\ IsCellOf(cells[r][1], e)
          /\ IsCellOf(cells[r][Len(cells[r])], e)
          /\ r \in {1, Len(cells)} =>
                \A c \in 1..Len(cells[r]) : IsCellOf(cells[r][c], e)

\* C12: when --border is given and a background emoji is resolvable, the
\* banner generateBanner returns has an outer border: the border emoji (the
\* one given with --border, else the background emoji) is in the render
\* configuration and in the BannerResult, and the cells of the output text
\* are the cells of the bitmap inside a frame of border-emoji cells.
C12_BorderDrawn ==
    BorderedBannerGenerated =>
        /\ Truthy(RequestedBorder)
        /\ borderEmojiOf(mconfig) = RequestedBorder
        /\ borderEmojiOf(banner) = RequestedBorder
        /\ Framed(banner.cells, Len(banner.bitmap), Len(banner.bitmap[1]),
                  RequestedBorder)

\* what the code does with --border: the border emoji is computed as the
\* claim says and then dropped; the configuration and the result are those of
\* the same command line without --border
BorderIgnored ==
    BorderedBannerGenerated =>
        /\ resolveBorder(options, resolveBackground(options)) = RequestedBorder
        /\ borderEmojiOf(mconfig) = UNDEFINED
        /\ borderEmojiOf(banner) = UNDEFINED
        /\ generateBanner([options EXCEPT !.border = UNDEFINED]).result = banner
        /\ Len(banner.cells) = Len(banner.bitmap)

====
